---- MODULE Spec2Model ----
(***************************************************************************)
(* A model of the object-centric extraction code of OC_Atari:              *)
(*   - the entity model        (src/ocatari/ram/game_objects.py),          *)
(*   - the River Raid decoder  (src/ocatari/ram/riverraid.py),             *)
(*   - the matching engine and the DetectionScores accumulator             *)
(*                             (src/scripts/metrics_utils.py).             *)
(* Each component has its own specification (SpecEntity, SpecDecoder,      *)
(* SpecMatch, SpecScores); the variables of the other components stay at   *)
(* their idle values.                                                      *)
(***************************************************************************)
EXTENDS Integers, Sequences, FiniteSets, TLC

VARIABLES
    op,          \* the operation that ran last ("init" after construction)
    \* ---- entity model: one GameObject
    cls,         \* the class of the entity
    wh,          \* GameObject.wh
    _xy,         \* GameObject._xy
    _prev_xy,    \* GameObject._prev_xy (None until saved or assigned;
                 \* Missing when the constructor never set the attribute)
    pre_xy,      \* history variable: _xy just before the last operation
    \* ---- River Raid decoder: the registry and the module globals
    objects,     \* the registry returned by _init_objects_riverraid_ram
    enemies,     \* global enemies
    cntr,        \* global cntr
    prev70,      \* global prev70
    ret,         \* outcome of the last decoder call
    ram_state,   \* the bytes of the snapshot a decoding function is given
    result,      \* what that function computed
    \* ---- matching engine
    ram_list,    \* first argument of detection_stats / difference_objects
    vision_list, \* second argument
    dets,        \* the dictionary detection_stats returned
    pairing,     \* history variable: the (ro, vo) pairs the zip loop visited
    report,      \* what difference_objects returned or raised
    \* ---- DetectionScores accumulator
    true_pos, false_pos, false_neg,
    given        \* history variable: sums of the triples passed to update

entityVars  == <<cls, wh, _xy, _prev_xy, pre_xy>>
registryVars == <<objects, enemies, cntr, prev70, ret>>
decoderVars == <<registryVars, ram_state, result>>
matchVars   == <<ram_list, vision_list, dets, pairing, report>>
scoreVars   == <<true_pos, false_pos, false_neg, given>>
vars == <<op, entityVars, decoderVars, matchVars, scoreVars>>

None == "None"

\* prev70 = None (riverraid.py line 155): a value no RAM byte takes
NoByte == -1

\* Python's max and min on two integers
Max(a, b) == IF a >= b THEN a ELSE b
Min(a, b) == IF a <= b THEN a ELSE b

\* The empty dictionary and dictionary update d[k] = v
EmptyDict == [k \in {} |-> 0]
DictPut(d, k, v) == [c \in (DOMAIN d) \cup {k} |-> IF c = k THEN v ELSE d[c]]

\* No call of difference_objects yet
NoReport == [raises |-> "unset"]

-----------------------------------------------------------------------------
(* Idle values of each component's variables *)
EntityIdle ==
    /\ cls = "GameObject"
    /\ wh = <<0, 0>>
    /\ _xy = <<0, 0>>
    /\ _prev_xy = None
    /\ pre_xy = <<0, 0>>

SnapshotIdle ==
    /\ ram_state = <<>>
    /\ result = "unset"

RegistryIdle ==
    /\ objects = <<>>
    /\ enemies = <<>>
    /\ cntr = 0
    /\ prev70 = NoByte
    /\ ret = "unset"

DecoderIdle == RegistryIdle /\ SnapshotIdle

MatchIdle ==
    /\ ram_list = <<>>
    /\ vision_list = <<>>
    /\ dets = EmptyDict
    /\ pairing = EmptyDict
    /\ report = NoReport

ScoresIdle ==
    /\ true_pos = EmptyDict
    /\ false_pos = EmptyDict
    /\ false_neg = EmptyDict
    /\ given = EmptyDict

-----------------------------------------------------------------------------
(***************************************************************************)
(* Entity model: GameObject                                                *)
(***************************************************************************)
MaxCoord == 2

Points == (0..MaxCoord) \X (0..MaxCoord)

\* GameObject.__init__: _xy = (0, 0), wh = (0, 0), _prev_xy = None
GameObjectInit ==
    /\ _xy = <<0, 0>>
    /\ wh = <<0, 0>>
    /\ _prev_xy = None

\* property prev_xy: _prev_xy when it is truthy (a 2-tuple is), else _xy
prev_xy == IF _prev_xy # None THEN _prev_xy ELSE _xy

\* property h_coords: [self._xy, self.prev_xy]
h_coords == <<_xy, prev_xy>>

\* properties dx, dy
dx == _xy[1] - prev_xy[1]
dy == _xy[2] - prev_xy[2]

\* xy.setter: self._xy = xy, nothing else
XySetter(p) ==
    /\ _xy' = p
    /\ UNCHANGED _prev_xy

\* _save_prev: self._prev_xy = self._xy
SavePrevBody ==
    /\ _prev_xy' = _xy
    /\ UNCHANGED _xy

\* prev_xy.setter: self._prev_xy = newval
PrevXySetter(v) ==
    /\ _prev_xy' = v
    /\ UNCHANGED _xy

XySet ==
    \E p \in Points :
        /\ XySetter(p)
        /\ pre_xy' = _xy
        /\ op' = "xy_set"
        /\ UNCHANGED <<cls, wh, decoderVars, matchVars, scoreVars>>

SavePrev ==
    /\ SavePrevBody
    /\ pre_xy' = _xy
    /\ op' = "save_prev"
    /\ UNCHANGED <<cls, wh, decoderVars, matchVars, scoreVars>>

PrevXySet ==
    \E v \in Points \cup {None} :
        /\ PrevXySetter(v)
        /\ pre_xy' = _xy
        /\ op' = "prev_xy_set"
        /\ UNCHANGED <<cls, wh, decoderVars, matchVars, scoreVars>>

InitEntity ==
    /\ op = "init"
    /\ cls = "GameObject"
    /\ GameObjectInit
    /\ pre_xy = <<0, 0>>
    /\ DecoderIdle /\ MatchIdle /\ ScoresIdle

NextEntity == XySet \/ SavePrev \/ PrevXySet

SpecEntity == InitEntity /\ [][NextEntity]_vars

\* C1: immediately after a position assignment the history h_coords is
\* [new_position, old_position], old_position being the position the entity
\* had just before that assignment.
C1_HistoryAfterSet == op = "xy_set" => h_coords = <<_xy, pre_xy>>

-----------------------------------------------------------------------------
(***************************************************************************)
(* River Raid decoder                                                      *)
(***************************************************************************)
\* A registry slot holding None
Absent == [cls |-> "None", xy |-> <<0, 0>>, wh |-> <<0, 0>>, hud |-> FALSE]

\* Player(), PlayerMissile(), PlayerScore(), Lives() as constructed
Player        == [cls |-> "Player", xy |-> <<77, 145>>, wh |-> <<7, 13>>, hud |-> FALSE]
PlayerMissile == [cls |-> "PlayerMissile", xy |-> <<0, 0>>, wh |-> <<1, 8>>, hud |-> FALSE]
PlayerScore   == [cls |-> "PlayerScore", xy |-> <<97, 165>>, wh |-> <<6, 8>>, hud |-> TRUE]
Lives         == [cls |-> "Lives", xy |-> <<57, 192>>, wh |-> <<6, 8>>, hud |-> TRUE]

\* range(6): the enemy slots of one snapshot
Slots == 0..5

\* _ram_to_class, indexed from 0 in the source
_ram_to_class ==
    <<None, None, None, None, "Jet", "Helicopter", "Helicopter", "Tanker",
      "Bridge", None, "FuelDepot">>

\* _ram_to_class[obj_type] for a byte: a list index past the end raises
RamToClass(obj_type) ==
    IF obj_type + 1 \in DOMAIN _ram_to_class
    THEN _ram_to_class[obj_type + 1]
    ELSE "IndexError"

\* twos_comp without the sign test
twos_compUnsigned(val) == val

\* twos_comp(val): val - 16 when bit 3 of val is set
twos_comp(val) == IF (val \div 8) % 2 # 0 THEN val - 16 ELSE val

\* The bytes a snapshot may carry at the offsets the decoder reads
MaxCntr == 15
CntrBytes  == 0..MaxCntr          \* ram_state[2]
Bytes70    == {0, 1}              \* ram_state[70]
SizeBytes  == {7, 143}            \* ram_state[26 + i]
ValidCodes == {0, 7}              \* ram_state[32 + i]: no class, Tanker
BadCodes   == {11, 255}           \* type codes past the end of _ram_to_class

\* Type-code lanes: every slot recognised, or one malformed byte in a lane
\* whose other slots all carry the same recognised code
TypeLanes ==
    [Slots -> ValidCodes] \cup
    { [[j \in Slots |-> v] EXCEPT ![i] = b] : v \in ValidCodes, i \in Slots, b \in BadCodes }

\* The snapshots decoded: the bytes at the offsets the decoder reads
Snapshots ==
    { [b2 |-> b2, b70 |-> b70, types |-> types,
       sizes |-> [i \in Slots |-> sb], anchors |-> [i \in Slots |-> 1]] :
      b2 \in CntrBytes, b70 \in Bytes70, types \in TypeLanes, sb \in SizeBytes }

\* _init_objects_riverraid_ram(hud): the registry it returns
InitRegistry(hud) ==
    [i \in 1..2 |-> Absent] \o [i \in 1..6 |-> Absent]
        \o (IF hud THEN <<PlayerScore, Lives>> ELSE <<>>)

\* _init_objects_riverraid_ram(hud): registry, globals and return value
InitObjectsBody(hud) ==
    /\ enemies' = [i \in 1..6 |-> Absent]
    /\ objects' = InitRegistry(hud)
    /\ cntr' = 0
    /\ prev70' = NoByte
    /\ ret' = "registry"

\* One pass of the first loop of _detect_objects_riverraid_revised for slot i:
\* the locals it computes, and the IndexError of _ram_to_class[obj_type]
SlotStep(i, types, sizes, anchors) ==
    [obj_class   |-> RamToClass(types[i]),
     x_off       |-> twos_comp(sizes[i] \div 16) - 6,
     orientation |-> (sizes[i] % 16) \div 8,
     xanchor     |-> anchors[i]]

\* The first slot whose pass raises, or 6 when none does
RECURSIVE FirstRaise(_, _, _, _)
FirstRaise(i, types, sizes, anchors) ==
    IF i > 5 THEN 6
    ELSE IF SlotStep(i, types, sizes, anchors).obj_class = "IndexError" THEN i
    ELSE FirstRaise(i + 1, types, sizes, anchors)

\* The second loop: objects[2+i] = en for every tracked enemy with 0 <= y < 161
PublishEnemies(objs, ens) ==
    [k \in DOMAIN objs |->
        IF k \in 3..8 /\ ens[k - 2] # Absent
              /\ 0 <= ens[k - 2].xy[2] /\ ens[k - 2].xy[2] < 161
        THEN ens[k - 2] ELSE objs[k]]

\* _detect_objects_riverraid_revised(objects, ram_state, hud) for a snapshot
\* with ram_state[2] = b2, ram_state[70] = b70, ram_state[32:38] = types,
\* ram_state[26:32] = sizes and ram_state[20:26] = anchors (hud is not read)
DetectBody(b2, b70, types, sizes, anchors) ==
    IF FirstRaise(0, types, sizes, anchors) < 6
    THEN \* the exception leaves the function before lines 223-247 run
         /\ ret' = "IndexError"
         /\ UNCHANGED <<objects, enemies, cntr, prev70>>
    ELSE /\ objects' = PublishEnemies(objects, enemies)
         /\ cntr' = b2
         /\ prev70' = b70
         /\ ret' = None             \* the function has no return statement
         /\ UNCHANGED enemies

InitObjects ==
    \E hud \in BOOLEAN :
        /\ InitObjectsBody(hud)
        /\ op' = "init"
        /\ UNCHANGED <<ram_state, result, entityVars, matchVars, scoreVars>>

Decode ==
    \E snap \in Snapshots :
        /\ DetectBody(snap.b2, snap.b70, snap.types, snap.sizes, snap.anchors)
        /\ op' = "decode"
        /\ UNCHANGED <<ram_state, result, entityVars, matchVars, scoreVars>>

InitDecoder ==
    /\ op = "init"
    /\ \E hud \in BOOLEAN :
        /\ enemies = [i \in 1..6 |-> Absent]
        /\ objects = InitRegistry(hud)
    /\ cntr = 0
    /\ prev70 = NoByte
    /\ ret = "registry"
    /\ SnapshotIdle
    /\ EntityIdle /\ MatchIdle /\ ScoresIdle

NextDecoder == InitObjects \/ Decode

SpecDecoder == InitDecoder /\ [][NextDecoder]_vars

\* C3: decoding a snapshot, whatever its type-code bytes, raises no error.
C3_DecodeNeverRaises == op = "decode" => ret # "IndexError"

\* C4: the registry returned by initialize holds a default-positioned Player
\* in slot 0 and PlayerMissile in slot 1, and the six enemy slots are absent.
C4_InitSingletonsPresent ==
    op = "init" =>
        /\ ret = "registry"
        /\ objects[1] = Player
        /\ objects[2] = PlayerMissile
        /\ \A k \in 3..8 : objects[k] = Absent

\* C5: every decode call returns the registry it was given, its length
\* unchanged (8 slots, 10 with HUD).
C5_DecodeReturnsRegistry ==
    op = "decode" => ret = "registry" /\ Len(objects) \in {8, 10}

\* No enemy is ever tracked: the tracking branch of the decoder (lines
\* 206-222) is commented out, so no state gives C6 a case to speak about.
NoEnemyTracked ==
    /\ \A k \in DOMAIN enemies : enemies[k] = Absent
    /\ \A k \in DOMAIN objects : k \in 3..8 => objects[k] = Absent

-----------------------------------------------------------------------------
(***************************************************************************)
(* DetectionScores accumulator                                             *)
(***************************************************************************)
\* Categories (class names) of the objects compared
Cats == {"Jet", "Tanker"}

MaxCount == 1     \* largest TP, FP or FN in one dictionary given to update
MaxTotal == 2     \* cap on every accumulated count

\* A property read: what it raises ("none" when it returns) and its value.
\* Quotients are kept exact as <<numerator, denominator>>.
Returns(v) == [raises |-> "none", value |-> v]
Raises(e)  == [raises |-> e, value |-> <<>>]

\* The dictionaries update may be given: category -> (TP, FP, FN)
DetDicts ==
    UNION { [D -> (0..MaxCount) \X (0..MaxCount) \X (0..MaxCount)] : D \in SUBSET Cats }

\* Mutant of Accumulate: the entry of a known category is assigned, not added to
AccumulateOverwrite(acc, det_dict, k) ==
    [cat \in (DOMAIN acc) \cup (DOMAIN det_dict) |->
        IF cat \notin DOMAIN det_dict THEN acc[cat] ELSE det_dict[cat][k]]

\* One of the three maps after update(det_dict): its entry is created for a
\* category not in self.true_pos and added to otherwise
Accumulate(acc, det_dict, k) ==
    [cat \in (DOMAIN acc) \cup (DOMAIN det_dict) |->
        IF cat \notin DOMAIN det_dict THEN acc[cat]
        ELSE IF cat \notin DOMAIN true_pos THEN det_dict[cat][k]
        ELSE acc[cat] + det_dict[cat][k]]

\* DetectionScores.update(det_dict)
UpdateBody(det_dict) ==
    /\ true_pos'  = Accumulate(true_pos, det_dict, 1)
    /\ false_pos' = Accumulate(false_pos, det_dict, 2)
    /\ false_neg' = Accumulate(false_neg, det_dict, 3)

\* sum(d.values())
RECURSIVE SumValues(_)
SumValues(d) ==
    IF DOMAIN d = {} THEN 0
    ELSE LET c == CHOOSE x \in DOMAIN d : TRUE
         IN  d[c] + SumValues([x \in (DOMAIN d) \ {c} |-> d[x]])

\* property cat_precisions: the filter keeps the categories with TP + FP # 0
cat_precisions ==
    Returns([cat \in {c \in DOMAIN true_pos : true_pos[c] + false_pos[c] # 0} |->
                <<true_pos[cat], true_pos[cat] + false_pos[cat]>>])

\* property cat_recalls: the filter keeps the categories with TP + FN # 0
cat_recalls ==
    Returns([cat \in {c \in DOMAIN true_pos : true_pos[c] + false_neg[c] # 0} |->
                <<true_pos[cat], true_pos[cat] + false_neg[cat]>>])

\* 2 * p * r / (p + r) for p = a/b and r = c/d
FScore(p, r) == <<2 * p[1] * r[1], p[1] * r[2] + r[1] * p[2]>>

\* property cat_f_scores: loops over prec.keys() and reads rec[cat]
cat_f_scores ==
    LET prec == cat_precisions.value
        rec  == cat_recalls.value
    IN  IF \E cat \in DOMAIN prec : cat \notin DOMAIN rec
        THEN Raises("KeyError")
        ELSE Returns([cat \in DOMAIN prec |->
                        IF prec[cat][1] = 0 /\ rec[cat][1] = 0
                        THEN <<0, 1>>
                        ELSE FScore(prec[cat], rec[cat])])

\* property mean_precision: pooled TP / (pooled TP + pooled FP)
mean_precision ==
    LET tp == SumValues(true_pos)
        fp == SumValues(false_pos)
    IN  IF tp + fp = 0 THEN Raises("ZeroDivisionError") ELSE Returns(<<tp, tp + fp>>)

\* property mean_recall: pooled TP / (pooled TP + pooled FN)
mean_recall ==
    LET tp == SumValues(true_pos)
        fn == SumValues(false_neg)
    IN  IF tp + fn = 0 THEN Raises("ZeroDivisionError") ELSE Returns(<<tp, tp + fn>>)

\* property mean_f_score: 2 * prec * rec / (prec + rec), no guard
mean_f_score ==
    IF mean_precision.raises # "none" THEN mean_precision
    ELSE IF mean_recall.raises # "none" THEN mean_recall
    ELSE IF mean_precision.value[1] = 0 /\ mean_recall.value[1] = 0
         THEN Raises("ZeroDivisionError")
         ELSE Returns(FScore(mean_precision.value, mean_recall.value))

\* property dict_summary: reads the three means in turn
dict_summary ==
    IF mean_precision.raises # "none" THEN mean_precision
    ELSE IF mean_recall.raises # "none" THEN mean_recall
    ELSE IF mean_f_score.raises # "none" THEN mean_f_score
    ELSE Returns([precision |-> mean_precision.value, recall |-> mean_recall.value,
                  f_score |-> mean_f_score.value])

\* The sums of the triples given so far, per category
AddGiven(g, det_dict) ==
    [cat \in (DOMAIN g) \cup (DOMAIN det_dict) |->
        IF cat \notin DOMAIN det_dict THEN g[cat]
        ELSE IF cat \notin DOMAIN g THEN det_dict[cat]
        ELSE <<g[cat][1] + det_dict[cat][1], g[cat][2] + det_dict[cat][2],
               g[cat][3] + det_dict[cat][3]>>]

Update ==
    \E det_dict \in DetDicts :
        /\ \A cat \in DOMAIN det_dict : \A k \in 1..3 :
              (IF cat \in DOMAIN given THEN given[cat][k] ELSE 0) + det_dict[cat][k]
                  <= MaxTotal
        /\ UpdateBody(det_dict)
        /\ given' = AddGiven(given, det_dict)
        /\ op' = "update"
        /\ UNCHANGED <<entityVars, decoderVars, matchVars>>

InitScores ==
    /\ op = "init"
    /\ true_pos = EmptyDict
    /\ false_pos = EmptyDict
    /\ false_neg = EmptyDict
    /\ given = EmptyDict
    /\ EntityIdle /\ DecoderIdle /\ MatchIdle

NextScores == Update

SpecScores == InitScores /\ [][NextScores]_vars

\* C7: the per-category precision, recall and F-score maps are computed
\* without an error for every accumulated (TP, FP, FN); a category with a zero
\* denominator is left out of the map concerned.
C7_CatScoresNeverRaise ==
    /\ cat_precisions.raises = "none"
    /\ cat_recalls.raises = "none"
    /\ cat_f_scores.raises = "none"
    /\ DOMAIN cat_f_scores.value \subseteq
          {c \in DOMAIN true_pos :
              true_pos[c] + false_pos[c] # 0 /\ true_pos[c] + false_neg[c] # 0}

\* C8: mean precision, mean recall, mean F-score and the summary never raise
\* a division error, and the mean F-score is 0 when pooled precision and
\* recall are both 0.
C8_MeansNeverRaise ==
    /\ mean_precision.raises = "none"
    /\ mean_recall.raises = "none"
    /\ mean_f_score.raises = "none"
    /\ dict_summary.raises = "none"

-----------------------------------------------------------------------------
(***************************************************************************)
(* Matching engine: make_class_lists, detection_stats, difference_objects  *)
(***************************************************************************)
MIN_DIST_DETECTION == 5

MaxObjs == 4      \* objects in the two lists together
CostScale == 1000 \* cdist costs are kept to 1/1000 of a half pixel

\* Bounding boxes (x, y, w, h) of the compared objects: two overlapping
\* boxes whose centres are 1.41 apart, and a box of the default size (0, 0)
\* whose centre is exactly 5 from the first and 3.6 from the second
Boxes == { <<10, 10, 2, 2>>, <<11, 11, 2, 2>>, <<14, 15, 0, 0>> }

\* An entity as the matching engine sees it; _is_in_ram and _is_in_image are
\* the attributes difference_objects sets on it ("unset" while it has none)
Entity(cat, b) ==
    [category |-> cat, xy |-> <<b[1], b[2]>>, wh |-> <<b[3], b[4]>>,
     _is_in_ram |-> "unset", _is_in_image |-> "unset"]

\* The objects the lists are drawn from: a Jet in every box, a Tanker in one
Entities == { Entity("Jet", b) : b \in Boxes } \cup { Entity("Tanker", <<10, 10, 2, 2>>) }

\* property center, in half pixels: (2x + w, 2y + h) stands for (x + w/2, y + h/2)
center(o) == <<2 * o.xy[1] + o.wh[1], 2 * o.xy[2] + o.wh[2]>>

\* [obj.center for obj in lst if obj.category == cat]
CentersOf(lst, cat) ==
    LET sel == SelectSeq(lst, LAMBDA o : o.category = cat)
    IN  [k \in 1..Len(sel) |-> center(sel[k])]

\* make_class_lists(ram_list, vision_list)
make_class_lists(rl, vl) ==
    LET categories == {rl[k].category : k \in DOMAIN rl} \cup
                      {vl[k].category : k \in DOMAIN vl}
    IN  [cat \in categories |-> <<CentersOf(rl, cat), CentersOf(vl, cat)>>]

\* Squared distance of two centres, in squared half pixels
Dist2(a, b) == (a[1] - b[1]) * (a[1] - b[1]) + (a[2] - b[2]) * (a[2] - b[2])

\* euclidean(ro, vo) < d for an integer d: both sides squared (the square
\* root of a multiple of 1/4 is below d exactly when the multiple is below d*d)
EuclideanBelow(ro, vo, d) == Dist2(ro, vo) < (2 * d) * (2 * d)

\* floor(sqrt(n)) by bisection
RECURSIVE ISqrtIn(_, _, _)
ISqrtIn(n, lo, hi) ==
    IF lo >= hi THEN lo
    ELSE LET mid == (lo + hi + 1) \div 2
         IN  IF mid * mid <= n THEN ISqrtIn(n, mid, hi) ELSE ISqrtIn(n, lo, mid - 1)

\* 46340 is the largest root whose square fits a 32-bit integer
ISqrt(n) == ISqrtIn(n, 0, Min(n, 46340))

\* cdist(rlist, vlist)[i][j], rounded down to 1/CostScale of a half pixel
cdist(rlist, vlist) ==
    [i \in DOMAIN rlist |-> [j \in DOMAIN vlist |->
        ISqrt(Dist2(rlist[i], vlist[j]) * CostScale * CostScale)]]

RECURSIVE SumSeq(_)
SumSeq(q) == IF q = <<>> THEN 0 ELSE Head(q) + SumSeq(Tail(q))

\* The assignments of minimal total cost, to within the rounding of k costs
Cheapest(all, cost, k) ==
    {asg \in all : \A other \in all : cost[other] + k > cost[asg]}

\* linear_sum_assignment(cost_m): the (row_ind, col_ind) answers it may give.
\* row_ind is increasing, col_ind has no repeats, both have min(m, n) entries
\* and the total cost is minimal; of several minimal answers (to within the
\* rounding of the costs) any one may come back.
linear_sum_assignment(cost_m, m, n) ==
    LET k == Min(m, n)
        rows == {f \in [1..k -> 1..m] : \A a, b \in 1..k : a < b => f[a] < f[b]}
        cols == {f \in [1..k -> 1..n] : \A a, b \in 1..k : a < b => f[a] # f[b]}
    IN  UNION { UNION { Cheapest(all, cost, k) :
                        cost \in { [asg \in all |->
                                     SumSeq([e \in 1..k |-> cost_m[asg[1][e]][asg[2][e]]])] } } :
                all \in { rows \X cols } }

\* zip(rlist, vlist)
Zip(a, b) == [k \in 1..Min(Len(a), Len(b)) |-> <<a[k], b[k]>>]

\* The (ro, vo) sequences the zip loop of detection_stats may run over
Pairings(rlist, vlist) ==
    IF Len(rlist) > 1 /\ Len(vlist) > 1
    THEN UNION { { Zip([e \in DOMAIN asg[1] |-> rlist[asg[1][e]]],
                       [e \in DOMAIN asg[2] |-> vlist[asg[2][e]]]) :
                   asg \in linear_sum_assignment(cost_m, Len(rlist), Len(vlist)) } :
                 cost_m \in { cdist(rlist, vlist) } }
    ELSE { Zip(rlist, vlist) }

\* Mutant of IsDetected: a distance equal to the threshold counts as detected
IsDetectedAtThreshold(ro, vo) ==
    Dist2(ro, vo) <= (2 * MIN_DIST_DETECTION) * (2 * MIN_DIST_DETECTION)

\* if euclidean(ro, vo) < MIN_DIST_DETECTION
IsDetected(ro, vo) == EuclideanBelow(ro, vo, MIN_DIST_DETECTION)

\* Mutant of Surplus: the surplus of the first list goes to FalseN, that of
\* the second to FalseP
SurplusSwapped(m, n) == <<Max(0, n - m), Max(0, m - n)>>

\* FalseP and FalseN before the zip loop, for len(rlist) = m and len(vlist) = n
Surplus(m, n) == <<Max(0, m - n), Max(0, n - m)>>

\* The zip loop of detection_stats from pair k on; acc = (TrueP, FalseP, FalseN)
RECURSIVE ZipLoop(_, _, _)
ZipLoop(pairs, k, acc) ==
    IF k > Len(pairs) THEN acc
    ELSE IF IsDetected(pairs[k][1], pairs[k][2])
         THEN ZipLoop(pairs, k + 1, <<acc[1] + 1, acc[2], acc[3]>>)
         ELSE ZipLoop(pairs, k + 1, <<acc[1], acc[2] + 1, acc[3] + 1>>)

\* Mutant of CatStats: the loop starts from (0, 0, 0), the surplus forgotten
CatStatsNoSurplus(rlist, vlist, pairs) == ZipLoop(pairs, 1, <<0, 0, 0>>)

\* dets[cat] for one category, given the pairs the loop runs over
CatStats(rlist, vlist, pairs) ==
    ZipLoop(pairs, 1, <<0, Surplus(Len(rlist), Len(vlist))[1],
                           Surplus(Len(rlist), Len(vlist))[2]>>)

\* The choices of pairs, one per category
PairingChoices(rl, vl) ==
    UNION { { f \in [DOMAIN per_cat -> UNION { per_cat[c] : c \in DOMAIN per_cat }] :
                \A c \in DOMAIN per_cat : f[c] \in per_cat[c] } :
            per_cat \in UNION { { [c \in DOMAIN cat_lists |->
                                     Pairings(cat_lists[c][1], cat_lists[c][2])] } :
                                cat_lists \in { make_class_lists(rl, vl) } } }

\* detection_stats(ram_list, vision_list) when the loop runs over pairs[cat]
detection_stats(rl, vl, pairs) ==
    LET cat_lists == make_class_lists(rl, vl)
    IN  [cat \in DOMAIN cat_lists |->
            CatStats(cat_lists[cat][1], cat_lists[cat][2], pairs[cat])]

\* get_iou(obj1, obj2): interArea / float(boxAArea + boxBArea - interArea)
get_iou(obj1, obj2) ==
    LET xA == Max(obj1.xy[1], obj2.xy[1])
        yA == Max(obj1.xy[2], obj2.xy[2])
        xB == Min(obj1.xy[1] + obj1.wh[1], obj2.xy[1] + obj2.wh[1])
        yB == Min(obj1.xy[2] + obj1.wh[2], obj2.xy[2] + obj2.wh[2])
        interArea == Max(0, xB - xA) * Max(0, yB - yA)
        boxAArea == obj1.wh[1] * obj1.wh[2]
        boxBArea == obj2.wh[1] * obj2.wh[2]
    IN  IF boxAArea + boxBArea - interArea = 0
        THEN Raises("ZeroDivisionError")
        ELSE Returns(<<interArea, boxAArea + boxBArea - interArea>>)

\* str(obj): the class name, the position and the size the text shows
Repr(o) == <<o.category, o.xy[1], o.xy[2], o.wh>>

\* d[objname] = [iou] or d[objname].append(iou)
AppendTo(d, objname, iou) ==
    IF objname \notin DOMAIN d THEN DictPut(d, objname, <<iou>>)
    ELSE DictPut(d, objname, Append(d[objname], iou))

\* The inner loop of difference_objects (lines 191-203) for ram object r,
\* from vision object v on; st carries the two lists with their marks, the
\* IOUs collected and the exception raised, if any
RECURSIVE InnerLoop(_, _, _)
InnerLoop(st, r, v) ==
    IF v > Len(st.vision) THEN st
    ELSE IF st.ram[r].category # st.vision[v].category THEN InnerLoop(st, r, v + 1)
    ELSE LET iou == get_iou(st.ram[r], st.vision[v])
         IN  IF iou.raises # "none" THEN [st EXCEPT !.raises = iou.raises]
             ELSE IF iou.value[1] > 0
             THEN [st EXCEPT !.ious = Append(@, iou.value),
                             !.per_class_ious = AppendTo(@, st.ram[r].category, iou.value),
                             !.vision[v]._is_in_ram = "True",
                             !.ram[r]._is_in_image = "True"]
             ELSE InnerLoop(st, r, v + 1)

\* The outer loop (lines 189-203) from ram object r on
RECURSIVE OuterLoop(_, _)
OuterLoop(st, r) ==
    IF r > Len(st.ram) \/ st.raises # "none" THEN st
    ELSE OuterLoop(InnerLoop([st EXCEPT !.ram[r]._is_in_image = "False"], r, 1), r + 1)

\* Lines 187-203: mark every vision object, then run the loops
MarkAndMatch(rl, vl) ==
    OuterLoop([ram |-> rl,
               vision |-> [k \in DOMAIN vl |-> [vl[k] EXCEPT !._is_in_ram = "False"]],
               ious |-> <<>>, per_class_ious |-> EmptyDict, raises |-> "none"], 1)

\* The dictionary difference_objects returns (lines 204-216); the IOU lists
\* stand for their means
ReportOf(st, d) ==
    [raises |-> "none",
     ious |-> st.ious,
     per_class_ious |-> st.per_class_ious,
     only_in_ram |-> [k \in 1..Len(SelectSeq(st.ram, LAMBDA o : o._is_in_image # "True")) |->
                         Repr(SelectSeq(st.ram, LAMBDA o : o._is_in_image # "True")[k])],
     only_in_vision |-> [k \in 1..Len(SelectSeq(st.vision, LAMBDA o : o._is_in_ram # "True")) |->
                         Repr(SelectSeq(st.vision, LAMBDA o : o._is_in_ram # "True")[k])],
     objs_in_ram |-> [k \in DOMAIN st.ram |-> Repr(st.ram[k])],
     objs_in_vision |-> [k \in DOMAIN st.vision |-> Repr(st.vision[k])],
     dets |-> d]

\* difference_objects(ram_list, vision_list) when detection_stats runs over pairs
DifferenceObjectsBody(pairs) ==
    LET d  == detection_stats(ram_list, vision_list, pairs)
        st == MarkAndMatch(ram_list, vision_list)
    IN  /\ ram_list' = st.ram
        /\ vision_list' = st.vision
        /\ IF st.raises = "none"
           THEN /\ report' = ReportOf(st, d)
                /\ dets' = d
                /\ pairing' = pairs
           ELSE /\ report' = [raises |-> st.raises]
                /\ UNCHANGED <<dets, pairing>>

DetectionStats ==
    \E pairs \in PairingChoices(ram_list, vision_list) :
        /\ dets' = detection_stats(ram_list, vision_list, pairs)
        /\ pairing' = pairs
        /\ op' = "detection_stats"
        /\ UNCHANGED <<ram_list, vision_list, report>>
        /\ UNCHANGED <<entityVars, decoderVars, scoreVars>>

DifferenceObjects ==
    \E pairs \in PairingChoices(ram_list, vision_list) :
        /\ DifferenceObjectsBody(pairs)
        /\ op' = "difference_objects"
        /\ UNCHANGED <<entityVars, decoderVars, scoreVars>>

\* A new DetectionScores() is given the dictionary detection_stats returned
UpdateWithDets ==
    /\ op = "detection_stats"
    /\ true_pos = EmptyDict
    /\ UpdateBody(dets)
    /\ given' = AddGiven(given, dets)
    /\ op' = "update"
    /\ UNCHANGED <<entityVars, decoderVars, matchVars>>

InitMatch ==
    /\ op = "init"
    /\ \E m \in 0..MaxObjs : \E n \in 0..(MaxObjs - m) :
          /\ ram_list \in [1..m -> Entities]
          /\ vision_list \in [1..n -> Entities]
    /\ dets = EmptyDict
    /\ pairing = EmptyDict
    /\ report = NoReport
    /\ EntityIdle /\ DecoderIdle /\ ScoresIdle

NextMatch == DetectionStats \/ DifferenceObjects \/ UpdateWithDets

SpecMatch == InitMatch /\ [][NextMatch]_vars

\* The objects of a category in a list, and the pairs of the zip loop whose
\* centres are 5 pixels or more apart (100 = (2 * 5)^2 in half pixels)
CountOf(lst, cat) == Cardinality({k \in DOMAIN lst : lst[k].category = cat})
FarPairs(cat) ==
    Cardinality({k \in DOMAIN pairing[cat] :
                    Dist2(pairing[cat][k][1], pairing[cat][k][2]) >= 100})
NearPairs(cat) ==
    Cardinality({k \in DOMAIN pairing[cat] :
                    Dist2(pairing[cat][k][1], pairing[cat][k][2]) < 100})

\* The boxes of a list, whatever marks its entities carry
BoxesOf(lst) == [k \in DOMAIN lst |-> Repr(lst[k])]
JetAt1010 == <<"Jet", 10, 10, <<2, 2>>>>
JetAt1111 == <<"Jet", 11, 11, <<2, 2>>>>
JetAt1415 == <<"Jet", 14, 15, <<0, 0>>>>

\* C2 as stated: the surplus objects of the first (reference) list are false
\* negatives and those of the second (candidate) list false positives; two
\* reference objects and no candidate give (TP, FP, FN) = (0, 0, 2).
C2_SurplusReferenceIsFN ==
    op = "detection_stats" =>
        \A c \in DOMAIN dets :
            /\ dets[c][3] - FarPairs(c) = Max(0, CountOf(ram_list, c) - CountOf(vision_list, c))
            /\ dets[c][2] - FarPairs(c) = Max(0, CountOf(vision_list, c) - CountOf(ram_list, c))
            /\ (CountOf(ram_list, c) = 2 /\ CountOf(vision_list, c) = 0) => dets[c] = <<0, 0, 2>>

\* C2 amended: the surplus objects of the first list are false positives and
\* those of the second list false negatives; two objects in the first list
\* and none in the second give (TP, FP, FN) = (0, 2, 0), and a new accumulator
\* given that result has precision 0 for the category and no recall entry.
C2_SurplusFirstListIsFP ==
    /\ op = "detection_stats" =>
          \A c \in DOMAIN dets :
              /\ dets[c][2] - FarPairs(c) = Max(0, CountOf(ram_list, c) - CountOf(vision_list, c))
              /\ dets[c][3] - FarPairs(c) = Max(0, CountOf(vision_list, c) - CountOf(ram_list, c))
              /\ (CountOf(ram_list, c) = 2 /\ CountOf(vision_list, c) = 0) => dets[c] = <<0, 2, 0>>
    /\ op = "update" =>
          \A c \in DOMAIN dets :
              (CountOf(ram_list, c) = 2 /\ CountOf(vision_list, c) = 0) =>
                  /\ c \in DOMAIN cat_precisions.value
                  /\ cat_precisions.value[c] = <<0, 2>>
                  /\ c \notin DOMAIN cat_recalls.value

C2_Witness ==
    /\ op = "update"
    /\ BoxesOf(ram_list) = <<JetAt1010, JetAt1111>>
    /\ vision_list = <<>>
    /\ dets = [c \in {"Jet"} |-> <<0, 2, 0>>]
    /\ "Jet" \notin DOMAIN cat_recalls.value

\* C9: every pair of the zip loop is one true positive when its centres are
\* strictly less than 5 apart and one false positive plus one false negative
\* otherwise (also at exactly 5); a Jet at (10,10) against a Jet at (11,11) of
\* the same size gives (1, 0, 0), precision 1 and recall 1.
C9_PairsClassified ==
    /\ op = "detection_stats" =>
          /\ \A c \in DOMAIN dets :
                /\ dets[c][1] = NearPairs(c)
                /\ dets[c][2] + dets[c][3] =
                      2 * FarPairs(c) + Max(CountOf(ram_list, c) - CountOf(vision_list, c),
                                            CountOf(vision_list, c) - CountOf(ram_list, c))
          /\ (BoxesOf(ram_list) = <<JetAt1010>> /\ BoxesOf(vision_list) = <<JetAt1111>>)
                => dets = [c \in {"Jet"} |-> <<1, 0, 0>>]
          /\ (BoxesOf(ram_list) = <<JetAt1010>> /\ BoxesOf(vision_list) = <<JetAt1415>>)
                => dets = [c \in {"Jet"} |-> <<0, 1, 1>>]
    /\ (op = "update" /\ BoxesOf(ram_list) = <<JetAt1010>>
                      /\ BoxesOf(vision_list) = <<JetAt1111>>)
          => /\ cat_precisions.value = [c \in {"Jet"} |-> <<1, 1>>]
             /\ cat_recalls.value = [c \in {"Jet"} |-> <<1, 1>>]

C9_Witness ==
    /\ op = "update"
    /\ BoxesOf(ram_list) = <<JetAt1010>>
    /\ BoxesOf(vision_list) = <<JetAt1111>>
    /\ dets = [c \in {"Jet"} |-> <<1, 0, 0>>]
    /\ cat_precisions.value["Jet"] = <<1, 1>>

\* C10: a call of detection_stats or difference_objects leaves both input
\* lists and every entity in them unchanged.
C10_InputsUnchanged ==
    [][ram_list' = ram_list /\ vision_list' = vision_list]_vars

\* Two boxes share no point of positive area
NoOverlap(a, b) ==
    \/ a.xy[1] + a.wh[1] <= b.xy[1] \/ b.xy[1] + b.wh[1] <= a.xy[1]
    \/ a.xy[2] + a.wh[2] <= b.xy[2] \/ b.xy[2] + b.wh[2] <= a.xy[2]

\* C11: for every pair of entities, those of the default size (0, 0)
\* included, get_iou returns intersection / (area_A + area_B - intersection),
\* a value in [0, 1] that is 1 for two boxes of the same position and size
\* and 0 for two boxes without overlap; difference_objects returns, and the
\* IOUs it averages are all greater than 0.
C11_IouTotalInUnitRange ==
    /\ \A r \in DOMAIN ram_list : \A v \in DOMAIN vision_list :
          LET a == ram_list[r]
              b == vision_list[v]
              iou == get_iou(a, b)
          IN  /\ iou.raises = "none"
              /\ iou.value[2] = a.wh[1] * a.wh[2] + b.wh[1] * b.wh[2] - iou.value[1]
              /\ 0 <= iou.value[1] /\ iou.value[1] <= iou.value[2]
              /\ (a.xy = b.xy /\ a.wh = b.wh) => iou.value[1] = iou.value[2]
              /\ NoOverlap(a, b) => iou.value[1] = 0
    /\ op = "difference_objects" =>
          /\ report.raises = "none"
          /\ \A k \in DOMAIN report.ious : report.ious[k][1] > 0

\* The same statement for the pairs in which a box has a positive area
IouOfPositiveArea ==
    /\ \A r \in DOMAIN ram_list : \A v \in DOMAIN vision_list :
          LET a == ram_list[r]
              b == vision_list[v]
              iou == get_iou(a, b)
          IN  (a.wh[1] * a.wh[2] + b.wh[1] * b.wh[2] > 0) =>
                  /\ iou.raises = "none"
                  /\ 0 <= iou.value[1] /\ iou.value[1] <= iou.value[2]
                  /\ (a.xy = b.xy /\ a.wh = b.wh) => iou.value[1] = iou.value[2]
                  /\ NoOverlap(a, b) => iou.value[1] = 0
    /\ (op = "difference_objects" /\ report.raises = "none") =>
          \A k \in DOMAIN report.ious : report.ious[k][1] > 0

\* C15: for every category, the triple (TP, FP, FN) detection_stats returns
\* accounts for every object: TP + FP is the number of objects of the
\* category in ram_list and TP + FN the number in vision_list, under the
\* optimal assignment and under list order alike; every category of either
\* list has a triple.
C15_CountsConserved ==
    op = "detection_stats" =>
        /\ \A c \in Cats :
              (CountOf(ram_list, c) + CountOf(vision_list, c) > 0) => c \in DOMAIN dets
        /\ \A c \in DOMAIN dets :
              /\ dets[c][1] + dets[c][2] = CountOf(ram_list, c)
              /\ dets[c][1] + dets[c][3] = CountOf(vision_list, c)

C15_Witness ==
    /\ op = "detection_stats"
    /\ CountOf(ram_list, "Jet") = 2
    /\ CountOf(vision_list, "Jet") = 2
    /\ dets["Jet"] = <<1, 1, 1>>

\* C16: after any sequence of update calls on a new accumulator the three
\* maps have the same keys, the categories given so far, and hold for each
\* the sums of the TP, FP and FN given for it; and an update leaves the
\* counts of a category it gave nothing for as they were.
C16_StoredCountsAreSums ==
    /\ [](/\ DOMAIN true_pos = DOMAIN false_pos
          /\ DOMAIN false_pos = DOMAIN false_neg
          /\ DOMAIN false_neg = DOMAIN given
          /\ \A c \in DOMAIN given :
                <<true_pos[c], false_pos[c], false_neg[c]>> = given[c])
    /\ [][\A c \in DOMAIN true_pos :
             (c \in DOMAIN given /\ given'[c] = given[c]) =>
                 /\ c \in DOMAIN true_pos' /\ true_pos'[c] = true_pos[c]
                 /\ c \in DOMAIN false_pos' /\ false_pos'[c] = false_pos[c]
                 /\ c \in DOMAIN false_neg' /\ false_neg'[c] = false_neg[c]]_vars

C16_Witness ==
    /\ op = "update"
    /\ true_pos = [c \in Cats |-> IF c = "Jet" THEN 2 ELSE 1]
    /\ false_pos = [c \in Cats |-> IF c = "Jet" THEN 1 ELSE 0]
    /\ false_neg = [c \in Cats |-> 0]

-----------------------------------------------------------------------------
(***************************************************************************)
(* Construction of the entities of River Raid                              *)
(***************************************************************************)
\* The attribute _prev_xy was never assigned: reading it raises AttributeError
Missing == "missing"

MaxXfr == 2

\* The arguments the decoder would construct an enemy with: xanchor, and
\* x_off = twos_comp(nibble) - 6 for the nibbles 0, 7 and 8
XfrValues == 0..MaxXfr
XOffValues == { twos_comp(0) - 6, twos_comp(7) - 6, twos_comp(8) - 6 }

\* GameObject(): the attributes GameObject.__init__ assigns
GameObject ==
    [cls |-> "GameObject", xy |-> <<0, 0>>, wh |-> <<0, 0>>, hud |-> FALSE,
     _prev_xy |-> None]

\* _DescendingObject.__init__: super().__init__(), then
\* self._xy = 15 * xfr - x_off, -5 - self.wh[1]
_DescendingObject(xfr, x_off) ==
    [GameObject EXCEPT !.xy = <<15 * xfr - x_off, -5 - GameObject.wh[2]>>]

\* The constructors of the five descending classes; Helicopter and FuelDepot
\* end with self.xy = self.xy[0], self.xy[1] - self.wh[1] (the xy setter)
Helicopter(xfr, x_off) ==
    LET o == [_DescendingObject(xfr, x_off) EXCEPT !.cls = "Helicopter", !.wh = <<8, 1>>]
    IN  [o EXCEPT !.xy = <<o.xy[1], o.xy[2] - o.wh[2]>>]

Tanker(xfr, x_off) ==
    [_DescendingObject(xfr, x_off) EXCEPT !.cls = "Tanker", !.wh = <<16, 1>>]

Jet(xfr, x_off) ==
    [_DescendingObject(xfr, x_off) EXCEPT !.cls = "Jet", !.wh = <<10, 1>>]

Bridge(xfr, x_off) ==
    [_DescendingObject(xfr, x_off) EXCEPT !.cls = "Bridge", !.wh = <<32, 18>>]

FuelDepot(xfr, x_off) ==
    LET o == [_DescendingObject(xfr, x_off) EXCEPT !.cls = "FuelDepot", !.wh = <<7, 1>>]
    IN  [o EXCEPT !.xy = <<o.xy[1], o.xy[2] - o.wh[2]>>]

\* Every entity a constructor call can return.  Player, PlayerMissile,
\* PlayerScore and Lives assign _xy, wh, rgb and hud only: their records
\* carry no _prev_xy
FreshEntities ==
    {GameObject, Player, PlayerMissile, PlayerScore, Lives}
        \cup { Helicopter(xfr, x_off) : xfr \in XfrValues, x_off \in XOffValues }
        \cup { Tanker(xfr, x_off) : xfr \in XfrValues, x_off \in XOffValues }
        \cup { Jet(xfr, x_off) : xfr \in XfrValues, x_off \in XOffValues }
        \cup { Bridge(xfr, x_off) : xfr \in XfrValues, x_off \in XOffValues }
        \cup { FuelDepot(xfr, x_off) : xfr \in XfrValues, x_off \in XOffValues }

\* Reading the properties h_coords, dx and dy of the entity: each evaluates
\* self._prev_xy first (property prev_xy, line 93)
ReadHCoords ==
    IF _prev_xy = Missing THEN Raises("AttributeError") ELSE Returns(h_coords)
ReadDx ==
    IF _prev_xy = Missing THEN Raises("AttributeError") ELSE Returns(dx)
ReadDy ==
    IF _prev_xy = Missing THEN Raises("AttributeError") ELSE Returns(dy)

InitConstruct ==
    /\ op = "init"
    /\ \E o \in FreshEntities :
          /\ cls = o.cls
          /\ wh = o.wh
          /\ _xy = o.xy
          /\ _prev_xy = (IF "_prev_xy" \in DOMAIN o THEN o._prev_xy ELSE Missing)
          /\ pre_xy = o.xy
    /\ DecoderIdle /\ MatchIdle /\ ScoresIdle

SpecConstruct == InitConstruct /\ [][NextEntity]_vars

\* C12: every freshly constructed entity, of GameObject and of each of the
\* nine River Raid classes, has dx = 0 and dy = 0 and the history
\* [position, position], and reading them raises no error.
C12_FreshEntityAtRest ==
    op = "init" =>
        /\ ReadDx = Returns(0)
        /\ ReadDy = Returns(0)
        /\ ReadHCoords = Returns(<<_xy, _xy>>)

\* The same statement for the classes whose constructor runs
\* GameObject.__init__
FreshDescendingAtRest ==
    (op = "init" /\ cls \notin {"Player", "PlayerMissile", "PlayerScore", "Lives"}) =>
        /\ ReadDx = Returns(0)
        /\ ReadDy = Returns(0)
        /\ ReadHCoords = Returns(<<_xy, _xy>>)

-----------------------------------------------------------------------------
(***************************************************************************)
(* River Raid: the score digits and the sign extension of the x offset     *)
(***************************************************************************)
\* The sentinel of a digit that is not shown (riverraid.py line 292)
Blank == 88

MaxDigit == 3

\* The RAM offsets of the six score digits, and the weight each carries
ScoreOffsets == {77, 79, 81, 83, 85, 87}
Weight == [k \in ScoreOffsets |->
             CASE k = 77 -> 100000 [] k = 79 -> 10000 [] k = 81 -> 1000
               [] k = 83 -> 100    [] k = 85 -> 10    [] k = 87 -> 1]

\* The bytes a digit position may hold: digit * 8 for the small digits and
\* for 9, the sentinel, and a byte that is no multiple of 8
DigitBytes == { 8 * d : d \in 0..MaxDigit } \cup {72, Blank, 4}

\* One statement of riverraid_score: if ram_state[k] != 88:
\* score = score + weight * ram_state[k] / 8.  The float quotient of an
\* integer below 2^53 by 8 is exact, so the score is kept in eighths
AddDigitNoBlank(score8, rs, k) == score8 + Weight[k] * rs[k]

AddDigit(score8, rs, k) ==
    IF rs[k] # Blank THEN score8 + Weight[k] * rs[k] ELSE score8

\* riverraid_score(ram_state): the score as <<numerator, 8>>
riverraid_score(rs) ==
    LET s77 == AddDigit(0, rs, 77)
        s79 == AddDigit(s77, rs, 79)
        s81 == AddDigit(s79, rs, 81)
        s83 == AddDigit(s81, rs, 83)
        s85 == AddDigit(s83, rs, 85)
        s87 == AddDigit(s85, rs, 87)
    IN  <<s87, 8>>

RiverraidScore ==
    /\ result' = riverraid_score(ram_state)
    /\ op' = "riverraid_score"
    /\ UNCHANGED <<ram_state, registryVars, entityVars, matchVars, scoreVars>>

InitScoreDigits ==
    /\ op = "init"
    /\ ram_state \in [ScoreOffsets -> DigitBytes]
    /\ result = "unset"
    /\ RegistryIdle /\ EntityIdle /\ MatchIdle /\ ScoresIdle

NextScoreDigits == RiverraidScore

SpecScoreDigits == InitScoreDigits /\ [][NextScoreDigits]_vars

\* The digit a position shows: none (0 in the sum) for the sentinel
DigitAt(k) == IF ram_state[k] = 88 THEN 0 ELSE ram_state[k] \div 8
ShownExactly(k) == ram_state[k] = 88 \/ \E d \in 0..9 : ram_state[k] = d * 8
Bytes321 == [k \in ScoreOffsets |->
               CASE k = 83 -> 24 [] k = 85 -> 16 [] k = 87 -> 8 [] OTHER -> 88]

\* C13: riverraid_score returns the sum, over the six digit bytes that are
\* not the sentinel 88, of weight * byte / 8; the bytes [88, 88, 88, 24, 16, 8]
\* give exactly 321; and when every byte that is not 88 is digit * 8 for a
\* digit 0..9 the result is the integer sum of weight * digit.
C13_ScoreIsWeightedDigitSum ==
    op = "riverraid_score" =>
        /\ result[2] = 8
        /\ result[1] =   100000 * (IF ram_state[77] = 88 THEN 0 ELSE ram_state[77])
                       + 10000 * (IF ram_state[79] = 88 THEN 0 ELSE ram_state[79])
                       + 1000 * (IF ram_state[81] = 88 THEN 0 ELSE ram_state[81])
                       + 100 * (IF ram_state[83] = 88 THEN 0 ELSE ram_state[83])
                       + 10 * (IF ram_state[85] = 88 THEN 0 ELSE ram_state[85])
                       + (IF ram_state[87] = 88 THEN 0 ELSE ram_state[87])
        /\ ram_state = Bytes321 => result[1] = 321 * result[2]
        /\ (\A k \in ScoreOffsets : ShownExactly(k)) =>
              result[1] = result[2] * (  100000 * DigitAt(77) + 10000 * DigitAt(79)
                                       + 1000 * DigitAt(81) + 100 * DigitAt(83)
                                       + 10 * DigitAt(85) + DigitAt(87))

C13_Witness ==
    /\ op = "riverraid_score"
    /\ ram_state = Bytes321
    /\ result = <<321 * 8, 8>>

\* Every value of a RAM byte
Bytes == 0..255

\* ram_state[26:32] with one byte of interest: slot i holds b, the others 0
SizeLanes == { [k \in 26..31 |-> IF k = 26 + i THEN b ELSE 0] : i \in Slots, b \in Bytes }

\* The pass of the decoder's first loop for slot i over ram_state[26:32]
\* (ram_state[32 + i] = 0: no class; ram_state[20 + i] = 1)
SlotPass ==
    \E i \in Slots :
        /\ result' = [slot |-> i,
                      step |-> SlotStep(i, [j \in Slots |-> 0],
                                           [j \in Slots |-> ram_state[26 + j]],
                                           [j \in Slots |-> 1])]
        /\ op' = "slot_pass"
        /\ UNCHANGED <<ram_state, registryVars, entityVars, matchVars, scoreVars>>

InitSizeBytes ==
    /\ op = "init"
    /\ ram_state \in SizeLanes
    /\ result = "unset"
    /\ RegistryIdle /\ EntityIdle /\ MatchIdle /\ ScoresIdle

NextSizeBytes == SlotPass

SpecSizeBytes == InitSizeBytes /\ [][NextSizeBytes]_vars

\* C14: twos_comp returns v for a nibble v < 8 and v - 16 for v >= 8 (8 gives
\* -8, 7 gives 7, 0 gives 0), always a value in -8..7, and the decoder
\* applies it to the high nibble byte // 16 of the byte at offset 26 + i,
\* for every byte 0..255: x_off is that value minus 6.
C14_SignExtendsNibble ==
    /\ \A v \in 0..15 :
          /\ v < 8 => twos_comp(v) = v
          /\ v >= 8 => twos_comp(v) = v - 16
          /\ twos_comp(v) \in -8..7
    /\ twos_comp(8) = -8 /\ twos_comp(7) = 7 /\ twos_comp(0) = 0
    /\ op = "slot_pass" =>
          LET nibble == ram_state[26 + result.slot] \div 16
              signed == result.step.x_off + 6
          IN  /\ nibble \in 0..15
              /\ signed = (IF nibble < 8 THEN nibble ELSE nibble - 16)
              /\ signed \in -8..7

C14_Witness ==
    /\ op = "slot_pass"
    /\ result.slot = 5
    /\ ram_state[31] = 143
    /\ result.step.x_off = -8 - 6

====
